---- MODULE Spec2Model ----
(***************************************************************************)
(* Model of tutorial/deidentify.py: the de-identification pipeline for the *)
(* NHS A&E records.  A DataFrame is a record [cols, rows]: the set of its  *)
(* column names and the sequence of its rows.  A row is a function from    *)
(* column names to values; besides its columns every row carries the field *)
(* "row", the number of the input line it was read from, which is not a    *)
(* column and is used only to state properties (it plays the part of the   *)
(* row's identity).                                                        *)
(***************************************************************************)
EXTENDS Integers, Sequences, FiniteSets, TLC

VARIABLES
    pc,      \* the statement of main (or the function called) to execute next
    df,      \* the DataFrame the variable nhs_ae_df refers to
    err,     \* the exception that ended the run, NoError while none was raised
    out,     \* the frames written to filepaths.nhs_ae_data_deidentify so far
    log,     \* the statements started so far, in order
    input,   \* the file filepaths.nhs_ae_data
    ref      \* the file filepaths.postcodes_london

vars == <<pc, df, err, out, log, input, ref>>

----------------------------------------------------------------------------
(* Bounds of the model. *)

MaxRows == 2
MaxCallRows == 2
MaxAgeRows == 1
MaxImdRows == 3
MaxHospitalRows == 3

----------------------------------------------------------------------------
(* Values. *)

\* A missing value in a column of labels or names (pandas' NaN).
NaN == "NaN"

\* A missing value in a numeric column (pandas' NaN).
NaNCode == 0 - 1

NoError == [kind |-> "none", what |-> ""]
KeyError(c) == [kind |-> "KeyError", what |-> c]
NameError(n) == [kind |-> "NameError", what |-> n]
ValueError(m) == [kind |-> "ValueError", what |-> m]
FileNotFoundError(f) == [kind |-> "FileNotFoundError", what |-> f]

EmptyFrame == [cols |-> {}, rows |-> <<>>]

\* What a function call leaves behind: the frame it returns (ret), the frame
\* its argument refers to after the call, in-place changes included (arg),
\* and the exception it raised.
Ok(ret, arg) == [ret |-> ret, arg |-> arg, err |-> NoError]
Raise(e, arg) == [ret |-> arg, arg |-> arg, err |-> e]

----------------------------------------------------------------------------
(* DataFrame primitives. *)

DropField(r, c) == [k \in (DOMAIN r) \ {c} |-> r[k]]
SetField(r, c, v) == [k \in (DOMAIN r) \cup {c} |-> IF k = c THEN v ELSE r[k]]

\* DataFrame.drop(c, 1, errors='ignore'): a missing column is let through.
DropIgnoringMissing(f, c) ==
    [df |-> [cols |-> f.cols \ {c},
             rows |-> [i \in DOMAIN f.rows |-> DropField(f.rows[i], c)]],
     err |-> NoError]

\* DataFrame.drop(c, 1) with errors='raise' (the default): a new frame
\* without the column, KeyError when the frame has no such column.
DropCol(f, c) ==
    IF c \notin f.cols
    THEN [df |-> f, err |-> KeyError(c)]
    ELSE [df |-> [cols |-> f.cols \ {c},
                  rows |-> [i \in DOMAIN f.rows |-> DropField(f.rows[i], c)]],
          err |-> NoError]

\* f[c] = values: sets the column in place, row by row.
SetCol(f, c, values) ==
    [cols |-> f.cols \cup {c},
     rows |-> [i \in DOMAIN f.rows |-> SetField(f.rows[i], c, values[i])]]

\* frame[[c1, c2]]: the frame restricted to the columns cs.
Project(rows, cs) ==
    [i \in DOMAIN rows |-> [k \in cs |-> rows[i][k]]]

\* DataFrame.drop_duplicates(): the first occurrence of every row is kept.
RECURSIVE DropDuplicates(_)
DropDuplicates(rows) ==
    IF rows = <<>> THEN <<>>
    ELSE LET n == Len(rows)
             init == DropDuplicates(SubSeq(rows, 1, n - 1))
         IN IF \E i \in 1..(n - 1) : rows[i] = rows[n]
            THEN init
            ELSE Append(init, rows[n])

\* The rows pd.merge(left, right, on=key) makes of one left row: one per
\* right row with the same key, the right row's other fields added.
MatchesOf(l, right, key) ==
    LET hits == SelectSeq(right, LAMBDA r : r[key] = l[key])
    IN [i \in DOMAIN hits |->
           [k \in (DOMAIN l) \cup (DOMAIN hits[i]) |->
               IF k \in DOMAIN l THEN l[k] ELSE hits[i][k]]]

\* pd.merge(left, right, on=key), how='inner' (the default): the order of
\* the left keys is kept.
RECURSIVE Merge(_, _, _)
Merge(left, right, key) ==
    IF left = <<>> THEN <<>>
    ELSE MatchesOf(Head(left), right, key) \o Merge(Tail(left), right, key)

\* pd.cut(x, bins, right=True, include_lowest=...) for one value: the
\* 0-based number of the interval (bins[j], bins[j+1]] holding x, found as
\* bins.searchsorted(x, side='left') - 1; NaNCode outside all intervals.
CutCode(x, bins, include_lowest) ==
    LET below == Cardinality({j \in DOMAIN bins : bins[j] < x})
        ids == IF include_lowest /\ x = bins[1] THEN 1 ELSE below
    IN IF ids = 0 \/ ids = Len(bins) THEN NaNCode ELSE ids - 1

\* pd.cut with labels: the label of the interval, NaN outside.
CutLabel(x, bins, labels, include_lowest) ==
    LET code == CutCode(x, bins, include_lowest)
    IN IF code = NaNCode THEN NaN ELSE labels[code + 1]

----------------------------------------------------------------------------
(* The functions of deidentify.py. *)

\* load_nhs_london_ae_data
LoadNhsLondonAeData(file) ==
    IF ~file.present
    THEN Raise(FileNotFoundError("nhs_ae_data"), EmptyFrame)
    ELSE Ok([cols |-> file.cols, rows |-> file.rows], EmptyFrame)

\* remove_nhs_numbers
RemoveNhsNumbers(f) ==
    LET d == DropCol(f, "NHS number")
    IN IF d.err # NoError THEN Raise(d.err, f) ELSE Ok(d.df, f)

\* convert_postcodes_to_lsoa
ConvertPostcodesToLsoa(f, file) ==
    IF ~file.present THEN Raise(FileNotFoundError("postcodes_london"), f)
    ELSE IF "Postcode" \notin f.cols THEN Raise(KeyError("Postcode"), f)
    ELSE LET right == Project(file.rows,
                              {"Postcode", "Lower layer super output area"})
             merged == [cols |-> f.cols \cup {"Lower layer super output area"},
                        rows |-> Merge(f.rows, right, "Postcode")]
             d == DropCol(merged, "Postcode")
         IN IF d.err # NoError THEN Raise(d.err, f) ELSE Ok(d.df, f)

\* The number of quantiles asked of pd.qcut.
NumQuantiles == 10

\* The bin edges pd.qcut(values, 10, retbins=True) returns, each multiplied
\* by NumQuantiles so that they stay integers: edge k is the k/10 quantile
\* of the values, interpolated linearly between the two order statistics
\* around position k*(n-1)/10.
QuantileEdges(values) ==
    LET sorted == SortSeq(values, LAMBDA a, b : a < b)
        n == Len(sorted)
    IN [j \in 1..(NumQuantiles + 1) |->
           LET pos == (j - 1) * (n - 1)
               lo == (pos \div NumQuantiles) + 1
               frac == pos % NumQuantiles
           IN IF frac = 0
              THEN NumQuantiles * sorted[lo]
              ELSE NumQuantiles * sorted[lo]
                   + frac * (sorted[lo + 1] - sorted[lo])]

\* pd.qcut raises "Bin edges must be unique" when two quantiles coincide
\* (duplicates='raise' is the default).
EdgesUnique(bins) == \A j \in 1..(Len(bins) - 1) : bins[j] < bins[j + 1]

\* The same cut without include_lowest=True: the lowest edge is left out.
DecileWithoutLowest(imd, bins) ==
    LET code == CutCode(NumQuantiles * imd, bins, FALSE)
    IN IF code = NaNCode THEN NaNCode ELSE code + 1

\* pd.cut(..., bins=bins, labels=False, include_lowest=True) + 1 for one
\* value of the deprivation index (bins are scaled by NumQuantiles).
DecileOf(imd, bins) ==
    LET code == CutCode(NumQuantiles * imd, bins, TRUE)
    IN IF code = NaNCode THEN NaNCode ELSE code + 1

\* The values the decile boundaries are computed over: the deprivation
\* index column of the whole reference table.
QcutPopulation(file) ==
    [i \in DOMAIN file.rows |->
        file.rows[i]["Index of Multiple Deprivation"]]

\* convert_lsoa_to_imd_decile
ConvertLsoaToImdDecile(f, file) ==
    IF ~file.present THEN Raise(FileNotFoundError("postcodes_london"), f)
    ELSE IF "Lower layer super output area" \notin f.cols
    THEN Raise(KeyError("Lower layer super output area"), f)
    ELSE LET right == DropDuplicates(Project(file.rows,
                          {"Lower layer super output area",
                           "Index of Multiple Deprivation"}))
             merged == Merge(f.rows, right, "Lower layer super output area")
             bins == QuantileEdges(QcutPopulation(file))
             withDecile ==
                 SetCol([cols |-> f.cols
                                  \cup {"Index of Multiple Deprivation"},
                         rows |-> merged],
                        "Index of Multiple Deprivation Decile",
                        [i \in DOMAIN merged |->
                            DecileOf(merged[i]["Index of Multiple Deprivation"],
                                     bins)])
             d1 == DropCol(withDecile, "Index of Multiple Deprivation")
             d2 == DropCol(d1.df, "Lower layer super output area")
         IN IF ~EdgesUnique(bins)
            THEN Raise(ValueError("Bin edges must be unique"), f)
            ELSE Ok(d2.df, f)

\* The orders random.shuffle can leave list(set(names)) in: every
\* arrangement of the distinct names.
Shuffles(names) ==
    {s \in [1..Cardinality(names) -> names] :
        \A i, j \in DOMAIN s : i # j => s[i] # s[j]}

HospitalNames(f) ==
    IF "Hospital" \in f.cols
    THEN {f.rows[i]["Hospital"] : i \in DOMAIN f.rows}
    ELSE {}

\* range(1, len(hospitals)): one ID short.
HospitalIdsShort(hospitals) == [i \in 1..(Len(hospitals) - 1) |-> i]

\* hospital_ids = range(1, len(hospitals)+1)
HospitalIds(hospitals) == [i \in 1..Len(hospitals) |-> i]

\* Series.map(hospitals_map) for one name, hospitals_map being the dict of
\* zip(hospitals, hospital_ids): zip stops at the shorter of the two, and a
\* name that is no key of the dict maps to NaN.
MapHospital(name, hospitals, ids) ==
    LET zipped == {i \in DOMAIN hospitals : i \in DOMAIN ids}
    IN IF \E i \in zipped : hospitals[i] = name
       THEN ids[CHOOSE i \in zipped : hospitals[i] = name]
       ELSE NaNCode

\* replace_hospital_with_random_number, hospitals being the list after
\* random.shuffle
ReplaceHospitalWithRandomNumber(f, hospitals) ==
    IF "Hospital" \notin f.cols THEN Raise(KeyError("Hospital"), f)
    ELSE LET ids == HospitalIds(hospitals)
             withId == SetCol(f, "Hospital ID",
                          [i \in DOMAIN f.rows |->
                              MapHospital(f.rows[i]["Hospital"],
                                          hospitals, ids)])
             d == DropCol(withId, "Hospital")
         IN Ok(d.df, withId)

HourBins == <<0, 4, 8, 12, 16, 20, 24>>
HourLabels == <<"00-03", "04-07", "08-11", "12-15", "16-19", "20-23">>

\* return nhs_ae_df: the frame the function built is returned.
ReturnOfLocalFrame(local, arg) == Ok(local, arg)

\* The return statement of put_time_in_4_hour_bins: it names nhs_df, which
\* is neither a local of the function nor a global of the module.
ReturnOfPutTime(local, arg) == Raise(NameError("nhs_df"), arg)

\* put_time_in_4_hour_bins.  An arrival time is a record [date, hour], what
\* pd.to_datetime makes of the text; the three new columns are set on the
\* argument itself before the function fails.
PutTimeIn4HourBins(f) ==
    IF "Arrival Time" \notin f.cols THEN Raise(KeyError("Arrival Time"), f)
    ELSE LET times == [i \in DOMAIN f.rows |-> f.rows[i]["Arrival Time"]]
             f1 == SetCol(f, "Arrival Date",
                          [i \in DOMAIN times |-> times[i].date])
             f2 == SetCol(f1, "Arrival Hour",
                          [i \in DOMAIN times |-> times[i].hour])
             f3 == SetCol(f2, "Arrival hour range",
                          [i \in DOMAIN times |->
                              CutLabel(f2.rows[i]["Arrival Hour"],
                                       HourBins, HourLabels, TRUE)])
             d1 == DropCol(f3, "Arrival Time")
             d2 == DropCol(d1.df, "Arrival Hour")
         IN ReturnOfPutTime(d2.df, f3)

\* Series.isin(['Male']) for one value
IsMale(g) == g \in {"Male"}

\* Series.isin(['Male', 'Female']) for one value
IsMaleOrFemale(g) == g \in {"Male", "Female"}

\* remove_non_male_or_female
RemoveNonMaleOrFemale(f) ==
    IF "Gender" \notin f.cols THEN Raise(KeyError("Gender"), f)
    ELSE Ok([cols |-> f.cols,
             rows |-> SelectSeq(f.rows,
                                LAMBDA r : IsMaleOrFemale(r["Gender"]))],
            f)

AgeBins == <<0, 18, 25, 45, 65, 85, 150>>
AgeLabels == <<"0-17", "18-24", "25-44", "45-64", "65-84", "85-">>

\* add_age_brackets
AddAgeBrackets(f) ==
    IF "Age" \notin f.cols THEN Raise(KeyError("Age"), f)
    ELSE LET withBracket ==
                 SetCol(f, "Age bracket",
                        [i \in DOMAIN f.rows |->
                            CutLabel(f.rows[i]["Age"],
                                     AgeBins, AgeLabels, TRUE)])
             d == DropCol(withBracket, "Age")
         IN Ok(d.df, withBracket)

\* nhs_ae_df.to_csv(filepaths.nhs_ae_data_deidentify, index=False)
ToCsv(f) == Ok(f, f)

\* elapsed = round(time.time() - start, 2): the module imports no time and
\* binds no start.
Elapsed(f) == Raise(NameError("time"), f)

----------------------------------------------------------------------------
(* main, statement by statement. *)

MainOrder ==
    <<"load_nhs_london_ae_data", "remove_nhs_numbers",
      "convert_postcodes_to_lsoa", "convert_lsoa_to_imd_decile",
      "replace_hospital_with_random_number", "put_time_in_4_hour_bins",
      "remove_non_male_or_female", "add_age_brackets", "to_csv", "elapsed">>

Statements == {MainOrder[i] : i \in DOMAIN MainOrder}

\* The statement main executes after statement s returns.
After(s) ==
    LET i == CHOOSE k \in DOMAIN MainOrder : MainOrder[k] = s
    IN IF i = Len(MainOrder) THEN "done" ELSE MainOrder[i + 1]

\* The effect of statement s on the frame f, hospitals being the outcome of
\* the shuffle.
Apply(s, f, hospitals) ==
    CASE s = "load_nhs_london_ae_data" -> LoadNhsLondonAeData(input)
      [] s = "remove_nhs_numbers" -> RemoveNhsNumbers(f)
      [] s = "convert_postcodes_to_lsoa" -> ConvertPostcodesToLsoa(f, ref)
      [] s = "convert_lsoa_to_imd_decile" -> ConvertLsoaToImdDecile(f, ref)
      [] s = "replace_hospital_with_random_number" ->
             ReplaceHospitalWithRandomNumber(f, hospitals)
      [] s = "put_time_in_4_hour_bins" -> PutTimeIn4HourBins(f)
      [] s = "remove_non_male_or_female" -> RemoveNonMaleOrFemale(f)
      [] s = "add_age_brackets" -> AddAgeBrackets(f)
      [] s = "to_csv" -> ToCsv(f)
      [] s = "elapsed" -> Elapsed(f)

\* One statement of main: nhs_ae_df is rebound to what the call returns; an
\* exception ends the run, nhs_ae_df still naming the frame it named.
Exec(s) ==
    /\ pc = s
    /\ \E hospitals \in (IF s = "replace_hospital_with_random_number"
                         THEN Shuffles(HospitalNames(df)) ELSE {<<>>}) :
          LET res == Apply(s, df, hospitals)
          IN /\ err' = res.err
             /\ df' = IF res.err = NoError THEN res.ret ELSE res.arg
             /\ pc' = IF res.err = NoError THEN After(s) ELSE "failed"
             /\ out' = IF s = "to_csv" /\ res.err = NoError
                       THEN Append(out, res.ret) ELSE out
    /\ log' = Append(log, s)
    /\ UNCHANGED <<input, ref>>

MainStep == \E s \in Statements : Exec(s)

----------------------------------------------------------------------------
(* The files a run can find, within the bounds. *)

AbsentFile == [present |-> FALSE, cols |-> {}, rows |-> <<>>]

InputColumns ==
    {"NHS number", "Postcode", "Hospital", "Arrival Time", "Gender", "Age"}

\* The column sets of the input file: all the columns the pipeline expects,
\* or all but one of them.
ColumnChoices == {InputColumns} \cup {InputColumns \ {c} : c \in InputColumns}

RestrictRows(rows, cs) ==
    [i \in DOMAIN rows |-> [k \in cs \cup {"row"} |-> rows[i][k]]]

\* The sequences of at most n rows whose i-th row is one of Choices[i].
RowSeqs(n, Choices(_)) ==
    UNION {{s \in [1..m -> UNION {Choices(i) : i \in 1..m}] :
               \A i \in 1..m : s[i]["row"] = i} : m \in 0..n}

\* Postcodes of the reference table, in the order of its lines, and one
\* postcode the table never holds.
RefPostcodes == <<"E1 6AN", "N1 9GU">>
UnknownPostcode == "ZZ99 9ZZ"
Postcodes == {RefPostcodes[i] : i \in DOMAIN RefPostcodes} \cup {UnknownPostcode}
Lsoas == {"E01000001", "E01000002"}
Imds == {1, 2}
Hospitals == {"Barts", "Royal Free"}
Genders == {"Female", "Other"}

InputRowChoices(i) ==
    {("row" :> i) @@ ("NHS number" :> i) @@ ("Postcode" :> p)
       @@ ("Hospital" :> h)
       @@ ("Arrival Time" :> [date |-> "2019-04-01", hour |-> 4])
       @@ ("Gender" :> g) @@ ("Age" :> 18) :
       p \in Postcodes, h \in Hospitals, g \in Genders}

InputFiles ==
    {AbsentFile} \cup
    {[present |-> TRUE, cols |-> cs, rows |-> RestrictRows(s, cs)] :
        cs \in ColumnChoices, s \in RowSeqs(MaxRows, InputRowChoices)}

RefRow(p, l, d) ==
    ("Postcode" :> p) @@ ("Lower layer super output area" :> l)
       @@ ("Index of Multiple Deprivation" :> d)

RefColumns ==
    {"Postcode", "Lower layer super output area",
     "Index of Multiple Deprivation"}

\* The reference tables: every postcode of RefPostcodes is on at most one
\* line (the table is row-unique per postcode), with any small area and any
\* deprivation index; at least one line.
RefTables ==
    LET NoLine == <<>>
        Lines == {NoLine} \cup {<<l, d>> : l \in Lsoas, d \in Imds}
        RowsOf(choice) ==
            LET kept == SelectSeq([i \in DOMAIN RefPostcodes |-> i],
                                  LAMBDA i : choice[i] # NoLine)
            IN [j \in DOMAIN kept |->
                   RefRow(RefPostcodes[kept[j]],
                          choice[kept[j]][1], choice[kept[j]][2])]
    IN {RowsOf(choice) : choice \in [DOMAIN RefPostcodes -> Lines]} \ {<<>>}

RefFiles ==
    {AbsentFile} \cup
    {[present |-> TRUE, cols |-> RefColumns, rows |-> rows] :
        rows \in RefTables}

Init ==
    /\ pc = "load_nhs_london_ae_data"
    /\ df = EmptyFrame
    /\ err = NoError
    /\ out = <<>>
    /\ log = <<>>
    /\ input \in InputFiles
    /\ ref \in RefFiles

Next == MainStep

Spec == Init /\ [][Next]_vars

----------------------------------------------------------------------------
(* The functions of the module called on their own: the caller's frame is  *)
(* kept in input, so that what a function returns can be compared with     *)
(* what it was given.                                                      *)

CallInit(s, frames, refs) ==
    /\ pc = s
    /\ \E f \in frames :
          /\ df = f
          /\ input = [present |-> TRUE, cols |-> f.cols, rows |-> f.rows]
    /\ err = NoError
    /\ out = <<>>
    /\ log = <<>>
    /\ ref \in refs

\* The frames of at most n rows over the given rows, with all the columns
\* of cs or with column c missing.
FramesOver(n, Choices(_), cs, c) ==
    {[cols |-> k, rows |-> RestrictRows(rows, k)] :
        k \in {cs, cs \ {c}}, rows \in RowSeqs(n, Choices)}

\* The call returned: no exception, and s is the one statement executed.
Returned(s) == log = <<s>> /\ err = NoError

\* ---- replace_hospital_with_random_number
CallHospitals == {"Barts", "Royal Free", "St Thomas"}

HospitalRowChoices(i) ==
    {("row" :> i) @@ ("Hospital" :> h) @@ ("Gender" :> "Male") :
        h \in CallHospitals}

InitHospital ==
    CallInit("replace_hospital_with_random_number",
             FramesOver(MaxHospitalRows, HospitalRowChoices,
                        {"Hospital", "Gender"}, "Hospital"),
             {AbsentFile})

CallReplaceHospital == Exec("replace_hospital_with_random_number")

SpecHospital == InitHospital /\ [][CallReplaceHospital]_vars

\* ---- convert_lsoa_to_imd_decile
CallLsoas == {"E01000001", "E01000002"}
UnknownLsoa == "E01009999"
CallImds == {1, 2, 3, 7}

ImdRowChoices(i) ==
    {("row" :> i) @@ ("Lower layer super output area" :> l)
       @@ ("Gender" :> "Male") :
       l \in CallLsoas \cup {UnknownLsoa}}

\* Reference tables of 1..MaxImdRows lines, line j holding the j-th
\* postcode, so that no postcode is on two lines.
ImdRefTables ==
    UNION {[1..n -> {<<l, d>> : l \in CallLsoas, d \in CallImds}] :
              n \in 1..MaxImdRows}

ImdRefFiles ==
    {[present |-> TRUE, cols |-> RefColumns,
      rows |-> [j \in DOMAIN t |-> RefRow(j, t[j][1], t[j][2])]] :
        t \in ImdRefTables}

InitImd ==
    CallInit("convert_lsoa_to_imd_decile",
             FramesOver(MaxCallRows, ImdRowChoices,
                        {"Lower layer super output area", "Gender"},
                        "Lower layer super output area"),
             ImdRefFiles)

CallConvertLsoaToImdDecile == Exec("convert_lsoa_to_imd_decile")

SpecImd == InitImd /\ [][CallConvertLsoaToImdDecile]_vars

\* ---- put_time_in_4_hour_bins
Hours == 0..23

TimeRowChoices(i) ==
    {("row" :> i)
       @@ ("Arrival Time" :> [date |-> "2019-04-01", hour |-> h])
       @@ ("Gender" :> "Male") :
       h \in Hours}

InitTime ==
    CallInit("put_time_in_4_hour_bins",
             FramesOver(MaxCallRows, TimeRowChoices,
                        {"Arrival Time", "Gender"}, "Arrival Time"),
             {AbsentFile})

CallPutTimeIn4HourBins == Exec("put_time_in_4_hour_bins")

SpecTime == InitTime /\ [][CallPutTimeIn4HourBins]_vars

\* ---- remove_non_male_or_female
CallGenders == {"Male", "Female", "Other", "male", NaN}

GenderRowChoices(i) ==
    {("row" :> i) @@ ("Gender" :> g) @@ ("Age" :> a) :
        g \in CallGenders, a \in {30, 70}}

InitGender ==
    CallInit("remove_non_male_or_female",
             FramesOver(MaxCallRows, GenderRowChoices,
                        {"Gender", "Age"}, "Gender"),
             {AbsentFile})

CallRemoveNonMaleOrFemale == Exec("remove_non_male_or_female")

SpecGender == InitGender /\ [][CallRemoveNonMaleOrFemale]_vars

\* ---- add_age_brackets
Ages == 0..150

AgeRowChoices(i) ==
    {("row" :> i) @@ ("Gender" :> "Male") @@ ("Age" :> a) : a \in Ages}

InitAge ==
    CallInit("add_age_brackets",
             FramesOver(MaxAgeRows, AgeRowChoices,
                        {"Gender", "Age"}, "Age"),
             {AbsentFile})

CallAddAgeBrackets == Exec("add_age_brackets")

SpecAge == InitAge /\ [][CallAddAgeBrackets]_vars

----------------------------------------------------------------------------
(* Properties. *)

Range(seq) == {seq[i] : i \in DOMAIN seq}
Started(s) == s \in Range(log)
ColumnOf(f, c) == [i \in DOMAIN f.rows |-> f.rows[i][c]]

\* The bracket whose label range contains hour h.
BracketOfHour(h) ==
    CASE h \in 0..3 -> "00-03"
      [] h \in 4..7 -> "04-07"
      [] h \in 8..11 -> "08-11"
      [] h \in 12..15 -> "12-15"
      [] h \in 16..19 -> "16-19"
      [] h \in 20..23 -> "20-23"

\* C1: put_time_in_4_hour_bins gives every row the bracket whose label
\* range contains its arrival hour: 0-3 "00-03", 4-7 "04-07", 8-11 "08-11",
\* 12-15 "12-15", 16-19 "16-19", 20-23 "20-23".
C1_HourInLabelledBracket ==
    (Started("put_time_in_4_hour_bins") /\ "Arrival hour range" \in df.cols)
    => \A i \in DOMAIN df.rows :
          df.rows[i]["Arrival hour range"]
             = BracketOfHour(input.rows[i]["Arrival Time"].hour)

\* The bracket whose label range contains age a.
BracketOfAge(a) ==
    CASE a \in 0..17 -> "0-17"
      [] a \in 18..24 -> "18-24"
      [] a \in 25..44 -> "25-44"
      [] a \in 45..64 -> "45-64"
      [] a \in 65..84 -> "65-84"
      [] a \in 85..150 -> "85+"

\* C2: add_age_brackets gives every row of age 0..150 the bracket whose
\* label range contains the age, out of 0-17, 18-24, 25-44, 45-64, 65-84
\* and 85+.
C2_AgeInLabelledBracket ==
    Returned("add_age_brackets")
    => \A i \in DOMAIN df.rows :
          df.rows[i]["Age bracket"] = BracketOfAge(input.rows[i]["Age"])

\* C3: after replace_hospital_with_random_number, whatever the shuffle, the
\* rows are the rows given, each with a Hospital ID in 1..N (N the number of
\* distinct hospital names given) instead of its name; two rows have the
\* same ID exactly when they had the same name, and every ID of 1..N is
\* used.
C3_HospitalIdsAreABijection ==
    Returned("replace_hospital_with_random_number")
    => LET name == ColumnOf(input, "Hospital")
           N == Cardinality(Range(name))
       IN /\ "Hospital ID" \in df.cols /\ "Hospital" \notin df.cols
          /\ Len(df.rows) = Len(input.rows)
          /\ \A i \in DOMAIN df.rows :
                /\ df.rows[i]["row"] = i
                /\ df.rows[i]["Hospital ID"] \in 1..N
          /\ \A i, j \in DOMAIN df.rows :
                (name[i] = name[j])
                   <=> (df.rows[i]["Hospital ID"] = df.rows[j]["Hospital ID"])
          /\ Range(ColumnOf(df, "Hospital ID")) = 1..N

\* C3 happens: three rows, two hospitals, the shuffle putting the second
\* row's hospital first.
C3_Witness ==
    /\ Returned("replace_hospital_with_random_number")
    /\ Len(df.rows) = 3
    /\ df.rows[1]["Hospital ID"] = 2
    /\ df.rows[2]["Hospital ID"] = 1
    /\ df.rows[3]["Hospital ID"] = 2
    /\ input.rows[1]["Hospital"] = "Barts"
    /\ input.rows[2]["Hospital"] = "St Thomas"

\* The deciles of a frame, by input row.
DecilesByRow(f) ==
    {<<f.rows[i]["row"], f.rows[i]["Index of Multiple Deprivation Decile"]>> :
        i \in DOMAIN f.rows}

\* The frame whose i-th row is row p[i] of f.
Reordered(f, p) == [cols |-> f.cols, rows |-> [i \in DOMAIN p |-> f.rows[p[i]]]]

\* C4: every row convert_lsoa_to_imd_decile returns has a decile in 1..10;
\* the deciles a given row gets are the same in whatever order the working
\* set lists its rows, and the same as when the row is the whole working
\* set (the boundaries come from the reference table, not from the working
\* set).
C4_DecileFromReferenceBoundaries ==
    Returned("convert_lsoa_to_imd_decile")
    => LET given == [cols |-> input.cols, rows |-> input.rows]
       IN /\ \A i \in DOMAIN df.rows :
                df.rows[i]["Index of Multiple Deprivation Decile"] \in 1..10
          /\ \A p \in Shuffles(DOMAIN given.rows) :
                DecilesByRow(
                    ConvertLsoaToImdDecile(Reordered(given, p), ref).ret)
                  = DecilesByRow(df)
          /\ \A i \in DOMAIN given.rows :
                DecilesByRow(
                    ConvertLsoaToImdDecile(Reordered(given, <<i>>), ref).ret)
                  = {d \in DecilesByRow(df) : d[1] = i}

\* C4 happens: two rows given, deciles 1, 5 and 10 assigned.
C4_Witness ==
    /\ Returned("convert_lsoa_to_imd_decile")
    /\ Len(input.rows) = 2
    /\ DecilesByRow(df) = {<<1, 5>>, <<2, 1>>, <<2, 10>>}

\* C5: no statement of main after the load leaves more rows than it found,
\* and no row of the input file is in the working set twice.
C5_RowCountNeverGrows ==
    [][(pc # "load_nhs_london_ae_data")
          => /\ Len(df'.rows) <= Len(df.rows)
             /\ \A i, j \in DOMAIN df'.rows :
                   i # j => df'.rows[i]["row"] # df'.rows[j]["row"]]_vars

IsPrefix(a, b) == Len(a) <= Len(b) /\ a = SubSeq(b, 1, Len(a))
WriteIndex == CHOOSE k \in DOMAIN MainOrder : MainOrder[k] = "to_csv"

C8_GenderFilterKeepsExactlyMaleFemale ==
    Returned("remove_non_male_or_female")
    => /\ df.cols = input.cols
       /\ \A i \in DOMAIN df.rows :
             /\ df.rows[i]["Gender"] \in {"Male", "Female"}
             /\ df.rows[i] = input.rows[df.rows[i]["row"]]
       /\ \A k \in DOMAIN input.rows :
             input.rows[k]["Gender"] \in {"Male", "Female"}
                => \E i \in DOMAIN df.rows : df.rows[i]["row"] = k
       /\ \A i, j \in DOMAIN df.rows :
             i < j => df.rows[i]["row"] < df.rows[j]["row"]

\* C8 happens: of an "Other" row and a "Female" row the second is returned.
C8_Witness ==
    /\ Returned("remove_non_male_or_female")
    /\ Len(input.rows) = 2
    /\ input.rows[1]["Gender"] = "Other"
    /\ input.rows[2]["Gender"] = "Female"
    /\ Len(df.rows) = 1
    /\ df.rows[1]["row"] = 2

\* The column each statement of main reads from the frame it is given.
ExpectedColumn(s) ==
    CASE s = "remove_nhs_numbers" -> "NHS number"
      [] s = "convert_postcodes_to_lsoa" -> "Postcode"
      [] s = "replace_hospital_with_random_number" -> "Hospital"
      [] s = "put_time_in_4_hour_bins" -> "Arrival Time"
      [] s = "remove_non_male_or_female" -> "Gender"
      [] s = "add_age_brackets" -> "Age"

ReadsColumn ==
    {"remove_nhs_numbers", "convert_postcodes_to_lsoa",
     "replace_hospital_with_random_number", "put_time_in_4_hour_bins",
     "remove_non_male_or_female", "add_age_brackets"}

\* The frame statement s was given lacked the column s reads: the column is
\* dropped by s itself and by no statement before it, so this is the case
\* exactly when the input file lacked it.
GivenWithoutColumn(s) ==
    Started(s) /\ input.present /\ ExpectedColumn(s) \notin input.cols

\* The run ended at s with an error of the given kind naming the column s
\* reads, the frame still without that column and nothing written.
FailsNaming(s, kind) ==
    /\ pc = "failed"
    /\ err = [kind |-> kind, what |-> ExpectedColumn(s)]
    /\ log[Len(log)] = s
    /\ ExpectedColumn(s) \notin df.cols
    /\ out = <<>>

\* C9 as stated: a statement of main given a frame without the column it
\* reads fails with a SchemaError naming that column, nothing runs after
\* it, and the frame still has no such column.
C9_MissingColumnIsSchemaError ==
    \A s \in ReadsColumn : GivenWithoutColumn(s) => FailsNaming(s, "SchemaError")

\* C9 as amended: a statement of main given a frame without the column it
\* reads fails with pandas' KeyError naming that column, nothing runs after
\* it, and the frame still has no such column; convert_postcodes_to_lsoa
\* reads the reference file before it looks at the column, so this is said
\* of it only when that file is present.
C9_MissingColumnIsKeyError ==
    \A s \in ReadsColumn :
       (GivenWithoutColumn(s)
          /\ (s = "convert_postcodes_to_lsoa" => ref.present))
       => FailsNaming(s, "KeyError")

\* C9 happens: the fifth statement is given two rows without "Hospital".
C9_Witness ==
    /\ GivenWithoutColumn("replace_hospital_with_random_number")
    /\ err = KeyError("Hospital")
    /\ Len(log) = 5
    /\ Len(df.rows) = 2

\* Both files present, every expected column present, every postcode in
\* the reference table, and decile boundaries that are distinct.
WellFormed ==
    /\ input.present /\ ref.present
    /\ input.cols = InputColumns
    /\ \A i \in DOMAIN input.rows :
          \E j \in DOMAIN ref.rows :
             ref.rows[j]["Postcode"] = input.rows[i]["Postcode"]
    /\ EdgesUnique(QuantileEdges(QcutPopulation(ref)))

\* C10: on a well-formed run main never fails, and it executes its
\* statements in their fixed order up to normal termination.
C10_WellFormedRunCompletes ==
    WellFormed => /\ pc # "failed"
                  /\ IsPrefix(log, MainOrder)

====
